---- MODULE Spec2Model ----
(***************************************************************************)
(* State-machine model of the Insidr bridge contracts:                     *)
(*   - PolkadotBridgeComplete (the Mint Ledger, ink!),                     *)
(*     src/contracts/polkadot/polkadot_bridge_complete.rs                  *)
(*   - StellarBridgeComplete (the Lock Ledger, Soroban),                   *)
(*     src/contracts/stellar/stellar_bridge_complete.rs                    *)
(*   - SimpleEscrow (Soroban), src/contracts/stellar/SimpleEscrow.rs       *)
(*   - MinimalTestContract (Soroban), src/contracts/stellar/minimal_test.rs*)
(*   - MinimalPolkadot (ink!), src/contracts/polkadot_minimal/lib.rs       *)
(* Every entry point is a pure operator from the contract's storage and    *)
(* the call's arguments to the set of outcomes [res, st] the call can      *)
(* have: the value returned and the storage it leaves.  The actions apply  *)
(* these operators to the stored state.                                    *)
(***************************************************************************)
EXTENDS Integers, Sequences, FiniteSets, TLC

(***************************************************************************)
(* Bounds of the model.                                                    *)
(***************************************************************************)
\* Bits of the model's unsigned value type (u128 in the source).
UBits == 20
\* Calls that change stored state, per behaviour.
MaxCalls == 3
\* The same, for the behaviours of the Mint Ledger's mint-and-burn cycle.
MaxCycleCalls == 5
\* The same, for the behaviours of SimpleEscrow.
MaxEscrowCalls == 4
\* Bits of the counters' type (u32 in the source).
CounterBits == 3

(***************************************************************************)
(* Program constants.                                                      *)
(***************************************************************************)
\* [0u8; 32], the all-zero digest.
ZeroHash == 0
\* proof.len() < 32
MinProofLen == 32
\* (amount * fee_bps) / 10000
BpsDenominator == 10000

U128Max == 2^UBits - 1

(***************************************************************************)
(* Input domains.                                                          *)
(***************************************************************************)
Accounts == {"alice", "bob"}
\* 32-byte digests: the zero digest and two others.
Hashes == {ZeroHash, 1, 2}
\* A proof is read only through its length.
Proofs == {MinProofLen - 1, MinProofLen}
\* Zero, an amount below the constructor's minimum and small enough for its fee
\* product to stay in range at any offered rate, an ordinary amount, the maximum.
Amounts == {0, 50, 10000, U128Max}
\* Digests offered to the Mint Ledger as commitment hashes.
MintCommitments == {ZeroHash, 1}
\* Overrides offered to update_config; the constructor is given 1000 and 30.
FeeRates == {0, 20000}
MinAmounts == {0}
\* Ledger times: the deployment, and the last second before and the first
\* second at the refund timeout of a lock made at deployment.
Times == {0, 604799, 604800}
\* Digests offered to the Lock Ledger as recipient hashes.
RecipientHashes == {ZeroHash, 1}
\* Digests offered to SimpleEscrow as lock ids.
LockIds == {1, 2}

\* Option<T>
None == <<>>
Some(v) == <<v>>
OptionOf(S) == {None} \cup {Some(v) : v \in S}

(***************************************************************************)
(* Key-addressed storage maps (ink! Mapping, Soroban persistent storage).  *)
(***************************************************************************)
EmptyMap == [k \in {} |-> 0]
MapHas(m, k) == k \in DOMAIN m
MapGet(m, k, default) == IF k \in DOMAIN m THEN m[k] ELSE default
MapInsert(m, k, v) == [x \in (DOMAIN m) \cup {k} |-> IF x = k THEN v ELSE m[x]]

\* An outcome of a call: the value returned (or the failure) and the storage left.
Ret(res, st) == [res |-> res, st |-> st]

(***************************************************************************)
(* PolkadotBridgeComplete                                                  *)
(***************************************************************************)
\* Blake2x256 of the account: a digest per account, none of them zero.
Polkadot_hash_recipient(recipient) ==
    CASE recipient = "alice" -> 1
      [] recipient = "bob" -> 2

Polkadot_new(caller, min_mint_amount, relayer_fee_bps) ==
    [owner |-> caller,
     total_minted |-> 0,
     total_burned |-> 0,
     commitments |-> EmptyMap,
     nullifiers |-> EmptyMap,
     balances |-> EmptyMap,
     min_mint_amount |-> min_mint_amount,
     relayer_fee_bps |-> relayer_fee_bps,
     paused |-> FALSE]

Polkadot_verify_zk_proof_ZeroNullifierOk(proof, commitment, nullifier, recipient_hash) ==
    IF proof < MinProofLen
    THEN FALSE
    ELSE IF commitment = ZeroHash \/ recipient_hash = ZeroHash
    THEN FALSE
    ELSE TRUE
Polkadot_verify_zk_proof(proof, commitment, nullifier, recipient_hash) ==
    IF proof < MinProofLen
    THEN FALSE
    ELSE IF commitment = ZeroHash \/ nullifier = ZeroHash \/ recipient_hash = ZeroHash
    THEN FALSE
    ELSE TRUE

\* a * b on the value type, computed without leaving the checker's integers:
\* whether it leaves the type's range, and its value modulo 2^UBits.
MulOverflows(a, b) == b # 0 /\ a > U128Max \div b
WrappingMul(a, b) ==
    LET modulus == U128Max + 1
        hi == a \div 1024
        lo == a % 1024
    IN ((((hi * b) % (modulus \div 1024)) * 1024) + lo * b) % modulus

\* amount * fee_bps is unchecked: out of range it panics (overflow checks on)
\* or wraps (overflow checks off), as the build decides.
Polkadot_calculate_fee(self, amount) ==
    IF ~MulOverflows(amount, self.relayer_fee_bps)
    THEN {[panic |-> FALSE, fee |-> (amount * self.relayer_fee_bps) \div BpsDenominator]}
    ELSE {[panic |-> TRUE, fee |-> 0],
          [panic |-> FALSE,
           fee |-> WrappingMul(amount, self.relayer_fee_bps) \div BpsDenominator]}

\* self.nullifiers.get(&nullifier_hash).unwrap_or(false)
Polkadot_nullifier_seen_Replayable(self, nullifier_hash) == FALSE
Polkadot_nullifier_seen(self, nullifier_hash) ==
    MapGet(self.nullifiers, nullifier_hash, FALSE)

\* A message that returns Err after it has written to storage.  The writes stay
\* where the executor keeps what a message wrote (the off-chain environment the
\* unit tests run in) and are rolled back where it reverts a call that returns
\* Err (the on-chain executor): both are outcomes of the same source.
Polkadot_err(res, written, self) == {Ret(res, written), Ret(res, self)}

Polkadot_verify_and_mint(self, now, proof, commitment_hash, nullifier_hash, recipient, amount, source_chain) ==
    IF self.paused
    THEN {Ret("ContractPaused", self)}
    ELSE IF amount < self.min_mint_amount
    THEN {Ret("AmountTooLow", self)}
    ELSE IF Polkadot_nullifier_seen(self, nullifier_hash)
    THEN {Ret("NullifierUsed", self)}
    ELSE IF ~Polkadot_verify_zk_proof(proof, commitment_hash, nullifier_hash,
                                      Polkadot_hash_recipient(recipient))
    THEN {Ret("InvalidProof", self)}
    ELSE
      LET s1 == [self EXCEPT !.nullifiers = MapInsert(@, nullifier_hash, TRUE)]
          AfterFee(fee) ==
            IF fee > amount
            THEN Polkadot_err("ArithmeticOverflow", s1, self)
            ELSE
              LET mint_amount == amount - fee
                  current_balance == MapGet(s1.balances, recipient, 0)
                  new_balance == current_balance + mint_amount
              IN
              IF new_balance > U128Max
              THEN Polkadot_err("ArithmeticOverflow", s1, self)
              ELSE
                LET s2 == [s1 EXCEPT !.balances = MapInsert(@, recipient, new_balance)]
                IN
                IF s2.total_minted + mint_amount > U128Max
                THEN Polkadot_err("ArithmeticOverflow", s2, self)
                ELSE
                  {Ret("Ok",
                      [s2 EXCEPT
                         !.total_minted = @ + mint_amount,
                         !.commitments =
                            MapInsert(@, commitment_hash,
                                      [commitment_hash |-> commitment_hash,
                                       source_chain |-> source_chain,
                                       amount |-> mint_amount,
                                       timestamp |-> now,
                                       status |-> "Minted"])])}
      IN
      UNION {IF f.panic THEN {Ret("Panic", self)} ELSE AfterFee(f.fee)
               : f \in Polkadot_calculate_fee(s1, amount)}

Polkadot_burn_and_bridge(self, caller, amount, destination_commitment) ==
    IF self.paused
    THEN {Ret("ContractPaused", self)}
    ELSE
      LET current_balance == MapGet(self.balances, caller, 0) IN
      IF current_balance < amount
      THEN {Ret("InsufficientBalance", self)}
      ELSE
        LET s1 == [self EXCEPT !.balances = MapInsert(@, caller, current_balance - amount)]
        IN
        IF s1.total_burned + amount > U128Max
        THEN Polkadot_err("ArithmeticOverflow", s1, self)
        ELSE {Ret("Ok", [s1 EXCEPT !.total_burned = @ + amount])}

Polkadot_transfer(self, caller, to, amount) ==
    LET from_balance == MapGet(self.balances, caller, 0) IN
    IF from_balance < amount
    THEN {Ret("InsufficientBalance", self)}
    ELSE
      LET to_balance == MapGet(self.balances, to, 0)
          s1 == [self EXCEPT !.balances = MapInsert(@, caller, from_balance - amount)]
      IN
      IF to_balance + amount > U128Max
      THEN Polkadot_err("ArithmeticOverflow", s1, self)
      ELSE {Ret("Ok", [s1 EXCEPT !.balances = MapInsert(@, to, to_balance + amount)])}

\* update_config as it would be if an absent override reset its field to zero.
Polkadot_update_config_ResetAbsent(self, caller, min_mint_amount, relayer_fee_bps) ==
    IF caller # self.owner
    THEN {Ret("Unauthorized", self)}
    ELSE {Ret("Ok", [self EXCEPT
                       !.min_mint_amount = IF min_mint_amount # None THEN min_mint_amount[1] ELSE 0,
                       !.relayer_fee_bps = IF relayer_fee_bps # None THEN relayer_fee_bps[1] ELSE 0])}

Polkadot_update_config(self, caller, min_mint_amount, relayer_fee_bps) ==
    IF caller # self.owner
    THEN {Ret("Unauthorized", self)}
    ELSE
      LET s1 == IF min_mint_amount # None
                THEN [self EXCEPT !.min_mint_amount = min_mint_amount[1]]
                ELSE self
          s2 == IF relayer_fee_bps # None
                THEN [s1 EXCEPT !.relayer_fee_bps = relayer_fee_bps[1]]
                ELSE s1
      IN {Ret("Ok", s2)}

Polkadot_set_paused_Ungated(self, caller, paused) ==
    {Ret("Ok", [self EXCEPT !.paused = paused])}
Polkadot_set_paused(self, caller, paused) ==
    IF caller # self.owner
    THEN {Ret("Unauthorized", self)}
    ELSE {Ret("Ok", [self EXCEPT !.paused = paused])}

Polkadot_transfer_ownership(self, caller, new_owner) ==
    IF caller # self.owner
    THEN {Ret("Unauthorized", self)}
    ELSE {Ret("Ok", [self EXCEPT !.owner = new_owner])}

Polkadot_balance_of(self, account) == MapGet(self.balances, account, 0)
Polkadot_is_nullifier_used(self, nullifier_hash) == MapGet(self.nullifiers, nullifier_hash, FALSE)
\* self.commitments.get(&commitment_hash): Option<BridgeCommitment>
Polkadot_get_commitment(self, commitment_hash) ==
    IF MapHas(self.commitments, commitment_hash)
    THEN Some(self.commitments[commitment_hash])
    ELSE None
Polkadot_get_owner(self) == self.owner
Polkadot_get_total_minted(self) == self.total_minted
Polkadot_get_total_burned(self) == self.total_burned

(***************************************************************************)
(* StellarBridgeComplete                                                   *)
(* A panic aborts the invocation and the host discards its writes: the     *)
(* outcome carries the panic message and the storage as it was.            *)
(***************************************************************************)
\* .unwrap_or(1_000_000)
DefaultMinLockAmount == 1000000
\* let timeout_period = 604800u64
TimeoutPeriod == 604800

I128Max == U128Max \div 2

\* env.current_contract_address()
ContractAddress == "contract"

\* Storage of a deployed contract before initialize.
Stellar_storage ==
    [instance |-> EmptyMap, commitments |-> EmptyMap, nullifiers |-> EmptyMap]

\* An outcome of a Lock Ledger call: result, storage and token balances left.
SRet(res, st, tok) == [res |-> res, st |-> st, token |-> tok]

\* address.require_auth(): the invocation is authorized by `invoker`.
RequireAuth_Anyone(invoker, address) == TRUE
RequireAuth(invoker, address) == invoker = address

\* token::Client::transfer: fails on a negative amount or insufficient funds.
Token_transfer(tok, from, to, amount) ==
    IF amount < 0 \/ tok[from] < amount
    THEN [ok |-> FALSE, token |-> tok]
    ELSE [ok |-> TRUE,
          token |-> [a \in DOMAIN tok |->
                       CASE a = from /\ a = to -> tok[a]
                         [] a = from -> tok[a] - amount
                         [] a = to -> tok[a] + amount
                         [] OTHER -> tok[a]]]

Stellar_initialize_Again(self, tok, invoker, admin, token_contract, min_lock_amount, relayer_fee) ==
    IF ~RequireAuth(invoker, admin)
    THEN {SRet("Auth", self, tok)}
    ELSE
      {SRet("Ok",
            [self EXCEPT !.instance =
               MapInsert(MapInsert(MapInsert(MapInsert(MapInsert(@,
                 "Admin", admin),
                 "TokenContract", token_contract),
                 "MinLockAmount", min_lock_amount),
                 "RelayerFee", relayer_fee),
                 "TotalLocked", 0)],
            tok)}
Stellar_initialize(self, tok, invoker, admin, token_contract, min_lock_amount, relayer_fee) ==
    IF MapHas(self.instance, "Admin")
    THEN {SRet("Contract already initialized", self, tok)}
    ELSE IF ~RequireAuth(invoker, admin)
    THEN {SRet("Auth", self, tok)}
    ELSE
      {SRet("Ok",
            [self EXCEPT !.instance =
               MapInsert(MapInsert(MapInsert(MapInsert(MapInsert(@,
                 "Admin", admin),
                 "TokenContract", token_contract),
                 "MinLockAmount", min_lock_amount),
                 "RelayerFee", relayer_fee),
                 "TotalLocked", 0)],
            tok)}

Stellar_verify_zk_proof_AnyProof(proof, commitment, nullifier, recipient) ==
    IF commitment = ZeroHash \/ nullifier = ZeroHash \/ recipient = ZeroHash
    THEN FALSE
    ELSE TRUE
Stellar_verify_zk_proof(proof, commitment, nullifier, recipient) ==
    IF proof < MinProofLen
    THEN FALSE
    ELSE IF commitment = ZeroHash \/ nullifier = ZeroHash \/ recipient = ZeroHash
    THEN FALSE
    ELSE TRUE

\* total_locked + amount and total_locked - amount are unchecked i128
\* arithmetic: out of range they panic or wrap, as the build decides.
I128Wrap(v) == ((v + I128Max + 1) % (2 * (I128Max + 1))) - (I128Max + 1)
I128Unchecked(v) ==
    IF -(I128Max + 1) <= v /\ v <= I128Max
    THEN {[panic |-> FALSE, v |-> v]}
    ELSE {[panic |-> TRUE, v |-> 0], [panic |-> FALSE, v |-> I128Wrap(v)]}

\* env.storage().persistent().has(&DataKey::Commitment(commitment_hash))
Stellar_commitment_exists_Overwrite(self, commitment_hash) == FALSE
Stellar_commitment_exists(self, commitment_hash) ==
    MapHas(self.commitments, commitment_hash)

\* env.storage().persistent().has(&DataKey::Nullifier(nullifier_hash))
Stellar_nullifier_seen_Replayable(self, nullifier_hash) == FALSE
Stellar_nullifier_seen(self, nullifier_hash) ==
    MapHas(self.nullifiers, nullifier_hash)

\* commitment.status != CommitmentStatus::Locked
Stellar_not_locked_Reclaim(commitment) == FALSE
Stellar_not_locked_RefundClaimed(commitment) == commitment.status = "Refunded"
Stellar_not_locked(commitment) == commitment.status # "Locked"

\* current_time < commitment.timestamp + timeout_period
Stellar_timeout_not_reached_Late(now, commitment) ==
    now <= commitment.timestamp + TimeoutPeriod
Stellar_timeout_not_reached(now, commitment) ==
    now < commitment.timestamp + TimeoutPeriod

Stellar_lock_funds(self, tok, now, invoker, sender, amount, commitment_hash, destination_chain) ==
    IF ~RequireAuth(invoker, sender)
    THEN {SRet("Auth", self, tok)}
    ELSE IF amount < MapGet(self.instance, "MinLockAmount", DefaultMinLockAmount)
    THEN {SRet("Amount below minimum", self, tok)}
    ELSE IF Stellar_commitment_exists(self, commitment_hash)
    THEN {SRet("Commitment already exists", self, tok)}
    ELSE IF ~MapHas(self.instance, "TokenContract")
    THEN {SRet("unwrap on None", self, tok)}
    ELSE
      LET paid == Token_transfer(tok, sender, ContractAddress, amount) IN
      IF ~paid.ok
      THEN {SRet("token transfer failed", self, tok)}
      ELSE
        LET commitment == [commitment_hash |-> commitment_hash,
                           sender |-> sender,
                           amount |-> amount,
                           timestamp |-> now,
                           destination_chain |-> destination_chain,
                           status |-> "Locked"]
            s1 == [self EXCEPT !.commitments = MapInsert(@, commitment_hash, commitment)]
            total_locked == MapGet(s1.instance, "TotalLocked", 0)
        IN
        {IF t.panic
         THEN SRet("attempt to add with overflow", self, tok)
         ELSE SRet("Ok",
                   [s1 EXCEPT !.instance = MapInsert(@, "TotalLocked", t.v)],
                   paid.token)
           : t \in I128Unchecked(total_locked + amount)}

Stellar_verify_and_unlock(self, tok, proof, commitment_hash, nullifier_hash, recipient_hash) ==
    IF Stellar_nullifier_seen(self, nullifier_hash)
    THEN {SRet("Nullifier already used - double spend attempt", self, tok)}
    ELSE IF ~MapHas(self.commitments, commitment_hash)
    THEN {SRet("Commitment not found", self, tok)}
    ELSE
      LET commitment == self.commitments[commitment_hash] IN
      IF Stellar_not_locked(commitment)
      THEN {SRet("Commitment already processed", self, tok)}
      ELSE IF ~Stellar_verify_zk_proof(proof, commitment_hash, nullifier_hash,
                                       recipient_hash)
      THEN {SRet("Invalid ZK proof", self, tok)}
      ELSE
        {SRet("Ok",
              [self EXCEPT
                 !.nullifiers = MapInsert(@, nullifier_hash, TRUE),
                 !.commitments = MapInsert(@, commitment_hash,
                                           [commitment EXCEPT !.status = "Claimed"])],
              tok)}

Stellar_refund(self, tok, now, invoker, commitment_hash) ==
    IF ~MapHas(self.commitments, commitment_hash)
    THEN {SRet("Commitment not found", self, tok)}
    ELSE
      LET commitment == self.commitments[commitment_hash] IN
      IF ~RequireAuth(invoker, commitment.sender)
      THEN {SRet("Auth", self, tok)}
      ELSE IF Stellar_timeout_not_reached(now, commitment)
      THEN {SRet("Timeout period not reached", self, tok)}
      ELSE IF Stellar_not_locked(commitment)
      THEN {SRet("Commitment already processed", self, tok)}
      ELSE IF ~MapHas(self.instance, "TokenContract")
      THEN {SRet("unwrap on None", self, tok)}
      ELSE
        LET paid == Token_transfer(tok, ContractAddress, commitment.sender,
                                   commitment.amount)
        IN
        IF ~paid.ok
        THEN {SRet("token transfer failed", self, tok)}
        ELSE
          LET s1 == [self EXCEPT
                       !.commitments = MapInsert(@, commitment_hash,
                                                 [commitment EXCEPT !.status = "Refunded"])]
              total_locked == MapGet(s1.instance, "TotalLocked", 0)
          IN
          {IF t.panic
           THEN SRet("attempt to subtract with overflow", self, tok)
           ELSE SRet("Ok",
                     [s1 EXCEPT !.instance = MapInsert(@, "TotalLocked", t.v)],
                     paid.token)
             : t \in I128Unchecked(total_locked - commitment.amount)}

Stellar_update_config(self, tok, invoker, admin, min_lock_amount, relayer_fee) ==
    IF ~MapHas(self.instance, "Admin")
    THEN {SRet("unwrap on None", self, tok)}
    ELSE IF admin # self.instance["Admin"]
    THEN {SRet("Unauthorized", self, tok)}
    ELSE IF ~RequireAuth(invoker, admin)
    THEN {SRet("Auth", self, tok)}
    ELSE
      LET s1 == IF min_lock_amount # None
                THEN [self EXCEPT !.instance = MapInsert(@, "MinLockAmount", min_lock_amount[1])]
                ELSE self
          s2 == IF relayer_fee # None
                THEN [s1 EXCEPT !.instance = MapInsert(@, "RelayerFee", relayer_fee[1])]
                ELSE s1
      IN {SRet("Ok", s2, tok)}

\* persistent().get(&DataKey::Commitment(..)).expect("Commitment not found"):
\* the stored commitment, or a panic; it reads storage and writes nothing.
Stellar_get_commitment_Default(self, commitment_hash) ==
    IF MapHas(self.commitments, commitment_hash)
    THEN [res |-> "Ok", value |-> Some(self.commitments[commitment_hash]), st |-> self]
    ELSE [res |-> "Ok", value |-> None, st |-> self]
Stellar_get_commitment(self, commitment_hash) ==
    IF MapHas(self.commitments, commitment_hash)
    THEN [res |-> "Ok", value |-> Some(self.commitments[commitment_hash]), st |-> self]
    ELSE [res |-> "Commitment not found", value |-> None, st |-> self]
Stellar_is_nullifier_used(self, nullifier_hash) == MapGet(self.nullifiers, nullifier_hash, FALSE)
\* MinLockAmount as lock_funds reads it
Stellar_min_lock_amount(self) == MapGet(self.instance, "MinLockAmount", DefaultMinLockAmount)
Stellar_get_total_locked(self) == MapGet(self.instance, "TotalLocked", 0)

(***************************************************************************)
(* SimpleEscrow                                                            *)
(***************************************************************************)
\* env.current_contract_address() of the escrow contract
EscrowAddress == "escrow"

\* Instance storage of a deployed escrow before initialize: the entries under
\* Admin, TokenContract and TotalLocked, and the entries under Lock(lock_id).
SimpleEscrow_storage == [instance |-> EmptyMap, locks |-> EmptyMap]

\* env.storage().instance().remove(&key)
MapRemove(m, k) == [x \in (DOMAIN m) \ {k} |-> m[x]]

SimpleEscrow_initialize(self, tok, invoker, admin, token_contract) ==
    IF ~RequireAuth(invoker, admin)
    THEN {SRet("Auth", self, tok)}
    ELSE
      {SRet("Ok",
            [self EXCEPT !.instance =
               MapInsert(MapInsert(MapInsert(@,
                 "Admin", admin),
                 "TokenContract", token_contract),
                 "TotalLocked", 0)],
            tok)}

SimpleEscrow_lock_funds(self, tok, now, invoker, sender, amount, lock_id, recipient_hash) ==
    IF ~RequireAuth(invoker, sender)
    THEN {SRet("Auth", self, tok)}
    ELSE IF ~MapHas(self.instance, "TokenContract")
    THEN {SRet("unwrap on None", self, tok)}
    ELSE
      LET paid == Token_transfer(tok, sender, EscrowAddress, amount) IN
      IF ~paid.ok
      THEN {SRet("token transfer failed", self, tok)}
      ELSE
        LET lock_info == [amount |-> amount,
                          sender |-> sender,
                          timestamp |-> now,
                          recipient_hash |-> recipient_hash]
            s1 == [self EXCEPT !.locks = MapInsert(@, lock_id, lock_info)]
            total == MapGet(s1.instance, "TotalLocked", 0)
        IN
        {IF t.panic
         THEN SRet("attempt to add with overflow", self, tok)
         ELSE SRet("Ok",
                   [s1 EXCEPT !.instance = MapInsert(@, "TotalLocked", t.v)],
                   paid.token)
           : t \in I128Unchecked(total + amount)}

SimpleEscrow_unlock_funds(self, tok, invoker, lock_id, recipient) ==
    IF ~MapHas(self.instance, "Admin")
    THEN {SRet("unwrap on None", self, tok)}
    ELSE IF ~RequireAuth(invoker, self.instance["Admin"])
    THEN {SRet("Auth", self, tok)}
    ELSE IF ~MapHas(self.locks, lock_id)
    THEN {SRet("Lock not found", self, tok)}
    ELSE IF ~MapHas(self.instance, "TokenContract")
    THEN {SRet("unwrap on None", self, tok)}
    ELSE
      LET lock_info == self.locks[lock_id]
          paid == Token_transfer(tok, EscrowAddress, recipient, lock_info.amount)
      IN
      IF ~paid.ok
      THEN {SRet("token transfer failed", self, tok)}
      ELSE
        LET s1 == [self EXCEPT !.locks = MapRemove(@, lock_id)]
            total == MapGet(s1.instance, "TotalLocked", 0)
        IN
        {IF t.panic
         THEN SRet("attempt to subtract with overflow", self, tok)
         ELSE SRet("Ok",
                   [s1 EXCEPT !.instance = MapInsert(@, "TotalLocked", t.v)],
                   paid.token)
           : t \in I128Unchecked(total - lock_info.amount)}

SimpleEscrow_get_lock_info(self, lock_id) ==
    IF MapHas(self.locks, lock_id) THEN Some(self.locks[lock_id]) ELSE None
SimpleEscrow_get_total_locked(self) == MapGet(self.instance, "TotalLocked", 0)

(***************************************************************************)
(* MinimalTestContract (Soroban) and MinimalPolkadot (ink!)                *)
(***************************************************************************)
\* The largest value of the counters' type (u32 in the source).
U32Max == 2^CounterBits - 1

\* An outcome of a counter call: result, the count returned, storage left.
CRet(res, value, st) == [res |-> res, value |-> value, st |-> st]

MinimalTest_initialize(self, invoker, owner) ==
    IF ~RequireAuth(invoker, owner)
    THEN {CRet("Auth", None, self)}
    ELSE {CRet("Ok", None, MapInsert(MapInsert(self, "Owner", owner), "Counter", 0))}

\* count += 1 is unchecked u32 arithmetic: at the largest value it panics or
\* wraps to 0, as the build decides.
MinimalTest_increment(self) ==
    LET count == MapGet(self, "Counter", 0) IN
    IF count < U32Max
    THEN {CRet("Ok", Some(count + 1), MapInsert(self, "Counter", count + 1))}
    ELSE {CRet("attempt to add with overflow", None, self),
          CRet("Ok", Some(0), MapInsert(self, "Counter", 0))}

MinimalTest_get_count(self) == MapGet(self, "Counter", 0)
MinimalTest_get_owner(self) ==
    IF MapHas(self, "Owner") THEN Some(self["Owner"]) ELSE None

MinimalPolkadot_new(caller) == [counter |-> 0, owner |-> caller]

\* self.counter.saturating_add(1)
MinimalPolkadot_increment(self) ==
    LET counter == IF self.counter < U32Max THEN self.counter + 1 ELSE U32Max IN
    {CRet("Ok", Some(counter), [self EXCEPT !.counter = counter])}

MinimalPolkadot_get_count(self) == self.counter
MinimalPolkadot_get_owner(self) == self.owner

(***************************************************************************)
(* State                                                                   *)
(***************************************************************************)
VARIABLES
    polkadot,     \* storage of PolkadotBridgeComplete
    stellar,      \* storage of StellarBridgeComplete
    token,        \* balances of the token contract the Lock Ledger escrows in
    ledger_time,  \* env.ledger().timestamp() of the Lock Ledger's chain
    last,         \* the last call that changed stored state: entry point, arguments, result
    calls,        \* calls so far that changed stored state
    escrow,       \* storage of SimpleEscrow
    escrow_token, \* balances of the token contract SimpleEscrow holds custody in
    minimal_test, \* instance storage of MinimalTestContract
    minimal_polkadot  \* storage of MinimalPolkadot

vars == <<polkadot, stellar, token, ledger_time, last, calls, escrow, escrow_token, minimal_test, minimal_polkadot>>

\* The contracts outside the bridge, which no bridge call touches.
side_contracts == <<escrow, escrow_token, minimal_test, minimal_polkadot>>
bridge_contracts == <<polkadot, stellar, token, ledger_time>>

\* block_timestamp(): no entry point of the Mint Ledger reads it back.
PolkadotNow == 0

Init ==
    /\ polkadot = Polkadot_new("alice", 1000, 30)
    /\ stellar = Stellar_storage
    /\ token = [a \in Accounts \cup {ContractAddress} |->
                  IF a = ContractAddress THEN 0 ELSE 20000]
    /\ ledger_time = 0
    /\ last = [op |-> "deploy", args |-> <<>>, res |-> "Ok"]
    /\ calls = 0
    /\ escrow = SimpleEscrow_storage
    /\ escrow_token = [a \in Accounts \cup {EscrowAddress} |->
                         IF a = EscrowAddress THEN 0 ELSE 20000]
    /\ minimal_test = EmptyMap
    /\ minimal_polkadot = MinimalPolkadot_new("alice")

\* A call that leaves the storage as it was is seen by its caller alone: it is a
\* stuttering step.  A call that changes storage is recorded in `last`.
PolkadotStep(op, args, out) ==
    /\ out.st # polkadot => calls < MaxCalls
    /\ polkadot' = out.st
    /\ IF out.st # polkadot
       THEN /\ last' = [op |-> op, args |-> args, res |-> out.res]
            /\ calls' = calls + 1
       ELSE UNCHANGED <<last, calls>>
    /\ UNCHANGED <<stellar, token, ledger_time, side_contracts>>

StellarStep(op, args, out, counted) ==
    LET changed == out.st # stellar \/ out.token # token IN
    /\ (changed /\ counted) => calls < MaxCalls
    /\ stellar' = out.st
    /\ token' = out.token
    /\ IF changed
       THEN /\ last' = [op |-> op, args |-> args, res |-> out.res]
            /\ calls' = IF counted THEN calls + 1 ELSE calls
       ELSE UNCHANGED <<last, calls>>
    /\ UNCHANGED <<polkadot, ledger_time, side_contracts>>

VerifyAndMint ==
    \E proof \in Proofs, c \in MintCommitments, n \in Hashes, r \in Accounts, a \in Amounts :
      \E out \in Polkadot_verify_and_mint(polkadot, PolkadotNow, proof, c, n, r, a, 0) :
        PolkadotStep("Polkadot.verify_and_mint",
                     [proof |-> proof, commitment_hash |-> c, nullifier_hash |-> n,
                      recipient |-> r, amount |-> a],
                     out)

BurnAndBridge ==
    \E caller \in Accounts, a \in Amounts :
      \E out \in Polkadot_burn_and_bridge(polkadot, caller, a, 1) :
        PolkadotStep("Polkadot.burn_and_bridge", [caller |-> caller, amount |-> a], out)

Transfer ==
    \E caller \in Accounts, to \in Accounts, a \in Amounts :
      \E out \in Polkadot_transfer(polkadot, caller, to, a) :
        PolkadotStep("Polkadot.transfer", [caller |-> caller, to |-> to, amount |-> a], out)

UpdateConfig ==
    \E caller \in Accounts, m \in OptionOf(MinAmounts), f \in OptionOf(FeeRates) :
      \E out \in Polkadot_update_config(polkadot, caller, m, f) :
        PolkadotStep("Polkadot.update_config",
                     [caller |-> caller, min_mint_amount |-> m, relayer_fee_bps |-> f], out)

SetPaused ==
    \E caller \in Accounts, p \in BOOLEAN :
      \E out \in Polkadot_set_paused(polkadot, caller, p) :
        PolkadotStep("Polkadot.set_paused", [caller |-> caller, paused |-> p], out)

TransferOwnership ==
    \E caller \in Accounts, new_owner \in Accounts :
      \E out \in Polkadot_transfer_ownership(polkadot, caller, new_owner) :
        PolkadotStep("Polkadot.transfer_ownership",
                     [caller |-> caller, new_owner |-> new_owner], out)

\* initialize succeeds once: it is not counted against MaxCalls.
Initialize ==
    \E invoker \in Accounts, admin \in {"alice"} :
      \E out \in Stellar_initialize(stellar, token, invoker, admin, "token", 1000, 0) :
        StellarStep("Stellar.initialize",
                    [invoker |-> invoker, admin |-> admin, min_lock_amount |-> 1000],
                    out, FALSE)

LockFunds ==
    \E invoker \in Accounts, sender \in Accounts, a \in Amounts, c \in Hashes :
      \E out \in Stellar_lock_funds(stellar, token, ledger_time, invoker, sender, a, c, 1) :
        StellarStep("Stellar.lock_funds",
                    [invoker |-> invoker, sender |-> sender, amount |-> a,
                     commitment_hash |-> c, now |-> ledger_time],
                    out, TRUE)

VerifyAndUnlock ==
    \E proof \in Proofs, c \in Hashes, n \in Hashes, rh \in RecipientHashes :
      \E out \in Stellar_verify_and_unlock(stellar, token, proof, c, n, rh) :
        StellarStep("Stellar.verify_and_unlock",
                    [proof |-> proof, commitment_hash |-> c, nullifier_hash |-> n,
                     recipient_hash |-> rh],
                    out, TRUE)

Refund ==
    \E invoker \in Accounts, c \in Hashes :
      \E out \in Stellar_refund(stellar, token, ledger_time, invoker, c) :
        StellarStep("Stellar.refund",
                    [invoker |-> invoker, commitment_hash |-> c, now |-> ledger_time],
                    out, TRUE)

StellarUpdateConfig ==
    \E invoker \in Accounts, admin \in Accounts, m \in OptionOf(MinAmounts) :
      \E out \in Stellar_update_config(stellar, token, invoker, admin, m, None) :
        StellarStep("Stellar.update_config",
                    [invoker |-> invoker, admin |-> admin, min_lock_amount |-> m],
                    out, TRUE)

\* The Lock Ledger's chain closes a ledger: its timestamp moves forward.
AdvanceTime ==
    /\ \E t \in Times : t > ledger_time /\ ledger_time' = t
    /\ UNCHANGED <<polkadot, stellar, token, last, calls, side_contracts>>

\* Whether each contract is still as deployed.
PolkadotIdle == polkadot = Polkadot_new("alice", 1000, 30)
StellarIdle == stellar = Stellar_storage /\ ledger_time = 0

\* The ledgers share no state: each is explored with the other one idle.
Next ==
    \/ StellarIdle /\ VerifyAndMint
    \/ StellarIdle /\ BurnAndBridge
    \/ StellarIdle /\ Transfer
    \/ StellarIdle /\ UpdateConfig
    \/ StellarIdle /\ SetPaused
    \/ StellarIdle /\ TransferOwnership
    \/ PolkadotIdle /\ Initialize
    \/ PolkadotIdle /\ LockFunds
    \/ PolkadotIdle /\ VerifyAndUnlock
    \/ PolkadotIdle /\ Refund
    \/ PolkadotIdle /\ StellarUpdateConfig
    \/ PolkadotIdle /\ AdvanceTime

Spec == Init /\ [][Next]_vars

\* Both ledgers running side by side, as the relayer sees them.
NextBridge ==
    \/ VerifyAndMint
    \/ BurnAndBridge
    \/ Transfer
    \/ UpdateConfig
    \/ SetPaused
    \/ TransferOwnership
    \/ Initialize
    \/ LockFunds
    \/ VerifyAndUnlock
    \/ Refund
    \/ StellarUpdateConfig
    \/ AdvanceTime

SpecBridge == Init /\ [][NextBridge]_vars

\* The Mint Ledger's mint-and-burn cycle: the owner may set the fee rate to zero,
\* accepted proofs mint an ordinary or the largest amount, holders burn.  Fewer
\* inputs than in Spec, more calls.
CycleStep(op, args, out) ==
    /\ out.st # polkadot => calls < MaxCycleCalls
    /\ polkadot' = out.st
    /\ IF out.st # polkadot
       THEN /\ last' = [op |-> op, args |-> args, res |-> out.res]
            /\ calls' = calls + 1
       ELSE UNCHANGED <<last, calls>>
    /\ UNCHANGED <<stellar, token, ledger_time, side_contracts>>

CycleUpdateConfig ==
    \E out \in Polkadot_update_config(polkadot, polkadot.owner, None, Some(0)) :
      CycleStep("Polkadot.update_config",
                [caller |-> polkadot.owner, min_mint_amount |-> None,
                 relayer_fee_bps |-> Some(0)], out)

CycleVerifyAndMint ==
    \E n \in Hashes, r \in Accounts, a \in {10000, U128Max} :
      \E out \in Polkadot_verify_and_mint(polkadot, PolkadotNow, MinProofLen, 1, n, r, a, 0) :
        CycleStep("Polkadot.verify_and_mint",
                  [proof |-> MinProofLen, commitment_hash |-> 1, nullifier_hash |-> n,
                   recipient |-> r, amount |-> a],
                  out)

CycleBurnAndBridge ==
    \E caller \in Accounts, a \in Amounts :
      \E out \in Polkadot_burn_and_bridge(polkadot, caller, a, 1) :
        CycleStep("Polkadot.burn_and_bridge", [caller |-> caller, amount |-> a], out)

NextCycle ==
    \/ CycleUpdateConfig
    \/ CycleVerifyAndMint
    \/ CycleBurnAndBridge

SpecCycle == Init /\ [][NextCycle]_vars

\* SimpleEscrow on its own: one initialize, then lock_funds and unlock_funds in
\* any order, with lock ids that may repeat.
EscrowStep(op, args, out) ==
    LET changed == out.st # escrow \/ out.token # escrow_token IN
    /\ changed => calls < MaxEscrowCalls
    /\ escrow' = out.st
    /\ escrow_token' = out.token
    /\ IF changed
       THEN /\ last' = [op |-> op, args |-> args, res |-> out.res]
            /\ calls' = calls + 1
       ELSE UNCHANGED <<last, calls>>
    /\ UNCHANGED <<bridge_contracts, minimal_test, minimal_polkadot>>

EscrowInitialize ==
    /\ ~MapHas(escrow.instance, "Admin")
    /\ \E invoker \in Accounts, admin \in Accounts :
         \E out \in SimpleEscrow_initialize(escrow, escrow_token, invoker, admin, "token") :
           EscrowStep("SimpleEscrow.initialize", [invoker |-> invoker, admin |-> admin], out)

EscrowLockFunds ==
    \E invoker \in Accounts, sender \in Accounts, a \in Amounts, id \in LockIds, rh \in RecipientHashes :
      \E out \in SimpleEscrow_lock_funds(escrow, escrow_token, ledger_time, invoker, sender, a, id, rh) :
        EscrowStep("SimpleEscrow.lock_funds",
                   [invoker |-> invoker, sender |-> sender, amount |-> a,
                    lock_id |-> id, recipient_hash |-> rh],
                   out)

EscrowUnlockFunds ==
    \E invoker \in Accounts, id \in LockIds, recipient \in Accounts :
      \E out \in SimpleEscrow_unlock_funds(escrow, escrow_token, invoker, id, recipient) :
        EscrowStep("SimpleEscrow.unlock_funds",
                   [invoker |-> invoker, lock_id |-> id, recipient |-> recipient],
                   out)

NextEscrow ==
    \/ EscrowInitialize
    \/ EscrowLockFunds
    \/ EscrowUnlockFunds

SpecEscrow == Init /\ [][NextEscrow]_vars

\* The two counter contracts.  A counter moves within its type's range, which
\* bounds the behaviours; `calls` is not used.
MinimalTestStep(op, args, out) ==
    /\ out.st # minimal_test
    /\ minimal_test' = out.st
    /\ last' = [op |-> op, args |-> args, res |-> out.res]
    /\ UNCHANGED <<bridge_contracts, calls, escrow, escrow_token, minimal_polkadot>>

MinimalTestInitialize ==
    \E invoker \in Accounts, owner \in Accounts :
      \E out \in MinimalTest_initialize(minimal_test, invoker, owner) :
        MinimalTestStep("MinimalTest.initialize", [invoker |-> invoker, owner |-> owner], out)

MinimalTestIncrement ==
    \E out \in MinimalTest_increment(minimal_test) :
      MinimalTestStep("MinimalTest.increment", [returned |-> out.value], out)

MinimalPolkadotIncrement ==
    \E out \in MinimalPolkadot_increment(minimal_polkadot) :
      /\ out.st # minimal_polkadot
      /\ minimal_polkadot' = out.st
      /\ last' = [op |-> "MinimalPolkadot.increment", args |-> [returned |-> out.value], res |-> out.res]
      /\ UNCHANGED <<bridge_contracts, calls, escrow, escrow_token, minimal_test>>

NextCounter ==
    \/ MinimalTestInitialize
    \/ MinimalTestIncrement
    \/ MinimalPolkadotIncrement

SpecCounter == Init /\ [][NextCounter]_vars

(***************************************************************************)
(* Properties                                                              *)
(***************************************************************************)
RECURSIVE SumOver(_, _)
SumOver(f, S) ==
    IF S = {}
    THEN 0
    ELSE LET x == CHOOSE y \in S : TRUE IN f[x] + SumOver(f, S \ {x})

Conserved(self) ==
    SumOver(self.balances, DOMAIN self.balances) = self.total_minted - self.total_burned

\* C1: Mint Ledger conservation.  After every call of verify_and_mint,
\* burn_and_bridge and transfer (a transfer to the caller itself included) the
\* balances add up to total_minted - total_burned.  Stated as the step every
\* call that returns Ok has to keep: from balances that add up to
\* total_minted - total_burned it leads to balances that do.
C1_Conservation ==
    [][(Conserved(polkadot) /\ polkadot' # polkadot /\ last'.res = "Ok")
         => Conserved(polkadot')]_vars

\* A step in which a call of the Mint Ledger, or of the Lock Ledger, changed storage.
PolkadotCalled(op) == polkadot' # polkadot /\ last'.op = op
StellarCalled(op) == (stellar' # stellar \/ token' # token) /\ last'.op = op

\* C2: No double-spend.  On each ledger a successful verify_and_mint or
\* verify_and_unlock consumes a nullifier that was not recorded before and records
\* it, and a recorded nullifier is never removed: is_nullifier_used stays true.  So
\* no nullifier is ever consumed by two successful calls.
C2_NoDoubleSpend ==
    [][/\ \A n \in Hashes :
            /\ Polkadot_is_nullifier_used(polkadot, n)
                 => Polkadot_is_nullifier_used(polkadot', n)
            /\ Stellar_is_nullifier_used(stellar, n)
                 => Stellar_is_nullifier_used(stellar', n)
       /\ (PolkadotCalled("Polkadot.verify_and_mint") /\ last'.res = "Ok")
            => /\ ~Polkadot_is_nullifier_used(polkadot, last'.args.nullifier_hash)
               /\ Polkadot_is_nullifier_used(polkadot', last'.args.nullifier_hash)
       /\ (StellarCalled("Stellar.verify_and_unlock") /\ last'.res = "Ok")
            => /\ ~Stellar_is_nullifier_used(stellar, last'.args.nullifier_hash)
               /\ Stellar_is_nullifier_used(stellar', last'.args.nullifier_hash)
      ]_vars

\* A nullifier consumed by a successful verify_and_unlock is recorded as used.
C2_Witness ==
    /\ last.op = "Stellar.verify_and_unlock"
    /\ last.res = "Ok"
    /\ Stellar_is_nullifier_used(stellar, last.args.nullifier_hash)

\* C3 as claimed: a verify_and_mint or verify_and_unlock call with a nullifier
\* that is already recorded fails with NullifierUsed, whatever its other
\* arguments, the pause flag and the minimum amount are, and changes nothing.
C3_ReplayAlwaysNullifierUsed ==
    \A n \in Hashes :
      /\ Polkadot_is_nullifier_used(polkadot, n) =>
           \A proof \in Proofs, c \in MintCommitments, r \in Accounts, a \in Amounts :
             \A out \in Polkadot_verify_and_mint(polkadot, PolkadotNow, proof, c, n, r, a, 0) :
               out.res = "NullifierUsed" /\ out.st = polkadot
      /\ Stellar_is_nullifier_used(stellar, n) =>
           \A proof \in Proofs, c \in Hashes, rh \in RecipientHashes :
             \A out \in Stellar_verify_and_unlock(stellar, token, proof, c, n, rh) :
               /\ out.res = "Nullifier already used - double spend attempt"
               /\ out.st = stellar /\ out.token = token

\* C3 as amended: such a call always fails and changes nothing.  On the Lock
\* Ledger the failure is NullifierUsed; on the Mint Ledger it is ContractPaused
\* when the ledger is paused, else AmountTooLow when the amount is below the
\* minimum, else NullifierUsed.
C3_ReplayFails ==
    \A n \in Hashes :
      /\ Polkadot_is_nullifier_used(polkadot, n) =>
           \A proof \in Proofs, c \in MintCommitments, r \in Accounts, a \in Amounts :
             \A out \in Polkadot_verify_and_mint(polkadot, PolkadotNow, proof, c, n, r, a, 0) :
               /\ out.st = polkadot
               /\ out.res = IF polkadot.paused THEN "ContractPaused"
                            ELSE IF a < polkadot.min_mint_amount THEN "AmountTooLow"
                            ELSE "NullifierUsed"
      /\ Stellar_is_nullifier_used(stellar, n) =>
           \A proof \in Proofs, c \in Hashes, rh \in RecipientHashes :
             \A out \in Stellar_verify_and_unlock(stellar, token, proof, c, n, rh) :
               /\ out.res = "Nullifier already used - double spend attempt"
               /\ out.st = stellar /\ out.token = token

\* A paused Mint Ledger holding a consumed nullifier: the replay is answered
\* ContractPaused.
C3_Witness ==
    /\ polkadot.paused
    /\ \E n \in Hashes :
         /\ Polkadot_is_nullifier_used(polkadot, n)
         /\ \E out \in Polkadot_verify_and_mint(polkadot, PolkadotNow, MinProofLen, 1, n,
                                                "alice", 10000, 0) :
              out.res = "ContractPaused"

\* C4 as claimed: lock_funds with a commitment hash that is already recorded
\* fails with CommitmentExists for every amount, moves no token and changes
\* neither the stored commitment nor total_locked.
C4_ExistingAlwaysCommitmentExists ==
    \A c \in Hashes :
      MapHas(stellar.commitments, c) =>
        \A sender \in Accounts, a \in Amounts :
          \A out \in Stellar_lock_funds(stellar, token, ledger_time, sender, sender, a, c, 1) :
            /\ out.res = "Commitment already exists"
            /\ out.st = stellar /\ out.token = token

\* C4 as amended: such a call always fails, moves no token and changes nothing;
\* the failure is AmountTooLow when the amount is below the minimum lock amount
\* and CommitmentExists otherwise (a call the sender did not authorize fails
\* before either).
C4_ExistingNeverLocked ==
    \A c \in Hashes :
      MapHas(stellar.commitments, c) =>
        \A invoker \in Accounts, sender \in Accounts, a \in Amounts :
          \A out \in Stellar_lock_funds(stellar, token, ledger_time, invoker, sender, a, c, 1) :
            /\ out.st = stellar /\ out.token = token
            /\ out.res = IF invoker # sender THEN "Auth"
                         ELSE IF a < Stellar_min_lock_amount(stellar)
                              THEN "Amount below minimum"
                         ELSE "Commitment already exists"

\* A recorded commitment, locked again with an amount the ledger accepts.
C4_Witness ==
    /\ last.op = "Stellar.lock_funds"
    /\ last.res = "Ok"
    /\ \E out \in Stellar_lock_funds(stellar, token, ledger_time, last.args.sender,
                                     last.args.sender, 10000, last.args.commitment_hash, 1) :
         out.res = "Commitment already exists"

\* C5: Monotonic status on the Lock Ledger.  A recorded commitment is never
\* removed, it is created with status Locked, and its status changes only from
\* Locked: to Claimed by verify_and_unlock, to Refunded by refund; none of its
\* other fields changes.  Claimed and Refunded are terminal.
C5_MonotonicStatus ==
    [][\A c \in Hashes :
         /\ MapHas(stellar.commitments, c) =>
              /\ MapHas(stellar'.commitments, c)
              /\ LET old == stellar.commitments[c]
                     new == stellar'.commitments[c]
                 IN  /\ [new EXCEPT !.status = old.status] = old
                     /\ new.status # old.status =>
                          /\ old.status = "Locked"
                          /\ new.status \in {"Claimed", "Refunded"}
                          /\ new.status = "Claimed" => last'.op = "Stellar.verify_and_unlock"
                          /\ new.status = "Refunded" => last'.op = "Stellar.refund"
         /\ (~MapHas(stellar.commitments, c) /\ MapHas(stellar'.commitments, c)) =>
              /\ stellar'.commitments[c].status = "Locked"
              /\ last'.op = "Stellar.lock_funds"
      ]_vars

\* A commitment that refund has just moved to Refunded.
C5_Witness ==
    /\ last.op = "Stellar.refund"
    /\ last.res = "Ok"
    /\ stellar.commitments[last.args.commitment_hash].status = "Refunded"

\* A recorded commitment whose status is Claimed or Refunded.
Terminal(c) ==
    /\ MapHas(stellar.commitments, c)
    /\ stellar.commitments[c].status \in {"Claimed", "Refunded"}

\* C6 as claimed: on a commitment whose status is Claimed or Refunded,
\* verify_and_unlock with any nullifier and refund at any ledger time fail with
\* CommitmentAlreadyProcessed; nothing changes and no token moves.
C6_TerminalAlwaysProcessed ==
    \A c \in Hashes :
      Terminal(c) =>
        /\ \A proof \in Proofs, n \in Hashes, rh \in RecipientHashes :
             \A out \in Stellar_verify_and_unlock(stellar, token, proof, c, n, rh) :
               /\ out.res = "Commitment already processed"
               /\ out.st = stellar /\ out.token = token
        /\ \A now \in Times :
             now >= ledger_time =>
               \A out \in Stellar_refund(stellar, token, now, stellar.commitments[c].sender, c) :
                 /\ out.res = "Commitment already processed"
                 /\ out.st = stellar /\ out.token = token

\* C6 as amended: on such a commitment both calls always fail, nothing changes
\* and no token moves.  verify_and_unlock fails with NullifierUsed when its
\* nullifier is already recorded and with CommitmentAlreadyProcessed otherwise;
\* refund fails with TimeoutNotReached while the ledger time is below the lock
\* timestamp plus 604800 and with CommitmentAlreadyProcessed from then on (a
\* refund the sender did not authorize fails at the authorization).
C6_TerminalNeverProcessed ==
    \A c \in Hashes :
      Terminal(c) =>
        /\ \A proof \in Proofs, n \in Hashes, rh \in RecipientHashes :
             \A out \in Stellar_verify_and_unlock(stellar, token, proof, c, n, rh) :
               /\ out.st = stellar /\ out.token = token
               /\ out.res = IF Stellar_is_nullifier_used(stellar, n)
                            THEN "Nullifier already used - double spend attempt"
                            ELSE "Commitment already processed"
        /\ \A now \in Times, invoker \in Accounts :
             now >= ledger_time =>
               \A out \in Stellar_refund(stellar, token, now, invoker, c) :
                 /\ out.st = stellar /\ out.token = token
                 /\ out.res = IF invoker # stellar.commitments[c].sender THEN "Auth"
                              ELSE IF now < stellar.commitments[c].timestamp + TimeoutPeriod
                                   THEN "Timeout period not reached"
                              ELSE "Commitment already processed"

\* A Claimed commitment before its timeout: the sender's refund is answered
\* TimeoutNotReached, an unlock with a fresh nullifier CommitmentAlreadyProcessed.
C6_Witness ==
    \E c \in Hashes :
      /\ Terminal(c)
      /\ stellar.commitments[c].status = "Claimed"
      /\ \E out \in Stellar_refund(stellar, token, ledger_time, stellar.commitments[c].sender, c) :
           out.res = "Timeout period not reached"
      /\ \E n \in Hashes :
           \E out \in Stellar_verify_and_unlock(stellar, token, MinProofLen, c, n, 1) :
             out.res = "Commitment already processed"

\* C7: Pause gate.  While the pause flag is set, no verify_and_mint, lock_funds
\* or burn_and_bridge call changes state: the last call that changed state is
\* none of them.
C7_PauseGate ==
    polkadot.paused =>
      last.op \notin {"Polkadot.verify_and_mint", "Polkadot.burn_and_bridge",
                      "Stellar.lock_funds"}

\* floor(a * b / d) computed without forming the product a * b
FloorMulDiv(a, b, d) == (a \div d) * b + ((a % d) * b) \div d

\* C8: Fee correctness.  A successful verify_and_mint with amount a under fee
\* rate f credits the recipient a - floor(a * f / 10000), adds the same to
\* total_minted, records the nullifier and stores the commitment as Minted with
\* that amount.
C8_FeeCorrectness ==
    [][(PolkadotCalled("Polkadot.verify_and_mint") /\ last'.res = "Ok") =>
         LET a == last'.args.amount
             r == last'.args.recipient
             c == last'.args.commitment_hash
             mintAmount == a - FloorMulDiv(a, polkadot.relayer_fee_bps, BpsDenominator)
         IN  /\ Polkadot_balance_of(polkadot', r) = Polkadot_balance_of(polkadot, r) + mintAmount
             /\ Polkadot_get_total_minted(polkadot')
                  = Polkadot_get_total_minted(polkadot) + mintAmount
             /\ Polkadot_is_nullifier_used(polkadot', last'.args.nullifier_hash)
             /\ polkadot'.commitments[c].status = "Minted"
             /\ polkadot'.commitments[c].amount = mintAmount
      ]_vars

\* the Proof Gate's rejection condition
GateRejects(proof, commitment, nullifier, recipient_hash) ==
    \/ proof < MinProofLen
    \/ commitment = ZeroHash
    \/ nullifier = ZeroHash
    \/ recipient_hash = ZeroHash

\* C9: The Proof Gate fails closed.  verify_zk_proof is false on both ledgers
\* when the proof is shorter than 32 bytes or the commitment, the nullifier or
\* the recipient hash is all zeros.  A verify_and_mint or verify_and_unlock call
\* with such arguments never succeeds and changes nothing, and when the checks
\* before the gate pass it fails with InvalidProof.
C9_ProofGateFailsClosed ==
    /\ \A proof \in Proofs, c \in Hashes, n \in Hashes, rh \in Hashes :
         GateRejects(proof, c, n, rh) =>
           /\ ~Polkadot_verify_zk_proof(proof, c, n, rh)
           /\ ~Stellar_verify_zk_proof(proof, c, n, rh)
    /\ \A proof \in Proofs, c \in MintCommitments, n \in Hashes, r \in Accounts, a \in Amounts :
         GateRejects(proof, c, n, Polkadot_hash_recipient(r)) =>
           \A out \in Polkadot_verify_and_mint(polkadot, PolkadotNow, proof, c, n, r, a, 0) :
             /\ out.res # "Ok"
             /\ out.st = polkadot
             /\ (/\ ~polkadot.paused
                 /\ a >= polkadot.min_mint_amount
                 /\ ~Polkadot_is_nullifier_used(polkadot, n)) => out.res = "InvalidProof"
    /\ \A proof \in Proofs, c \in Hashes, n \in Hashes, rh \in RecipientHashes :
         GateRejects(proof, c, n, rh) =>
           \A out \in Stellar_verify_and_unlock(stellar, token, proof, c, n, rh) :
             /\ out.res # "Ok"
             /\ out.st = stellar /\ out.token = token
             /\ (/\ ~Stellar_is_nullifier_used(stellar, n)
                 /\ MapHas(stellar.commitments, c)
                 /\ stellar.commitments[c].status = "Locked") => out.res = "Invalid ZK proof"

\* A Locked commitment whose unlock the gate rejects for a 31-byte proof and for
\* an all-zero recipient hash.
C9_Witness ==
    \E c \in Hashes :
      /\ MapHas(stellar.commitments, c)
      /\ stellar.commitments[c].status = "Locked"
      /\ \E out \in Stellar_verify_and_unlock(stellar, token, MinProofLen - 1, c, 1, 1) :
           out.res = "Invalid ZK proof"
      /\ \E out \in Stellar_verify_and_unlock(stellar, token, MinProofLen, c, 1, ZeroHash) :
           out.res = "Invalid ZK proof"

\* C10: Refund timeout.  For a Locked commitment with lock timestamp t0 and
\* amount a, a refund authorized by its sender at ledger time t fails with
\* TimeoutNotReached and changes nothing when t < t0 + 604800; when
\* t >= t0 + 604800 (the boundary included) it succeeds, pays a from the
\* contract to the sender, sets the status to Refunded and lowers total_locked
\* by a.
C10_RefundTimeout ==
    \A c \in Hashes :
      (MapHas(stellar.commitments, c) /\ stellar.commitments[c].status = "Locked") =>
        LET cm == stellar.commitments[c] IN
        \A now \in Times :
          now >= ledger_time =>
            \A out \in Stellar_refund(stellar, token, now, cm.sender, c) :
              IF now < cm.timestamp + 604800
              THEN /\ out.res = "Timeout period not reached"
                   /\ out.st = stellar /\ out.token = token
              ELSE /\ out.res = "Ok"
                   /\ out.token = [[token EXCEPT ![ContractAddress] = @ - cm.amount]
                                     EXCEPT ![cm.sender] = @ + cm.amount]
                   /\ out.st.commitments = [stellar.commitments EXCEPT ![c].status = "Refunded"]
                   /\ Stellar_get_total_locked(out.st)
                        = Stellar_get_total_locked(stellar) - cm.amount
                   /\ out.st.nullifiers = stellar.nullifiers

\* A refund that succeeded exactly at the boundary t0 + 604800.
C10_Witness ==
    /\ last.op = "Stellar.refund"
    /\ last.res = "Ok"
    /\ last.args.now = stellar.commitments[last.args.commitment_hash].timestamp + 604800
    /\ stellar.commitments[last.args.commitment_hash].status = "Refunded"

\* C11: Refund authorization.  A refund of a recorded commitment succeeds only
\* when its invocation is authorized by the commitment's stored sender: invoked
\* by anyone else it fails and leaves the commitment, the escrow and
\* total_locked unchanged.  A successful refund pays the commitment's amount out
\* of the contract's custody to the stored sender and changes no other balance.
C11_RefundAuthorization ==
    \A c \in Hashes :
      MapHas(stellar.commitments, c) =>
        LET cm == stellar.commitments[c] IN
        \A now \in Times, invoker \in Accounts :
          now >= ledger_time =>
            \A out \in Stellar_refund(stellar, token, now, invoker, c) :
              /\ invoker # cm.sender =>
                   /\ out.res = "Auth"
                   /\ out.st = stellar /\ out.token = token
              /\ out.res = "Ok" =>
                   /\ invoker = cm.sender
                   /\ out.token[cm.sender] = token[cm.sender] + cm.amount
                   /\ out.token[ContractAddress] = token[ContractAddress] - cm.amount
                   /\ \A a \in Accounts \ {cm.sender} : out.token[a] = token[a]

\* A Locked commitment past its timeout: the sender's refund would succeed,
\* the other account's refund is refused.
C11_Witness ==
    \E c \in Hashes :
      /\ MapHas(stellar.commitments, c)
      /\ stellar.commitments[c].status = "Locked"
      /\ \E out \in Stellar_refund(stellar, token, ledger_time, stellar.commitments[c].sender, c) :
           out.res = "Ok"
      /\ \E other \in Accounts \ {stellar.commitments[c].sender} :
           \E out \in Stellar_refund(stellar, token, ledger_time, other, c) :
             out.res = "Auth"

\* owner, minimum amount, fee rate and pause flag of the Mint Ledger
PolkadotAdminState(self) ==
    <<self.owner, self.min_mint_amount, self.relayer_fee_bps, self.paused>>

\* C12: Admin gating.  On the Mint Ledger update_config, set_paused and
\* transfer_ownership succeed only for the current owner; for any other caller
\* they fail with Unauthorized and change nothing.  The owner changes only by a
\* successful transfer_ownership, to its argument; no other entry point changes
\* owner, minimum, fee or pause flag.  On the Lock Ledger update_config succeeds
\* only when invoked by the admin stored by initialize: naming another admin
\* fails with Unauthorized, naming the admin without its authorization is
\* refused by require_auth, and in both cases nothing changes; the stored admin
\* never changes.
C12_AdminGating ==
    /\ \A caller \in Accounts :
         /\ \A m \in OptionOf(MinAmounts), f \in OptionOf(FeeRates) :
              \A out \in Polkadot_update_config(polkadot, caller, m, f) :
                /\ caller # polkadot.owner => out.res = "Unauthorized" /\ out.st = polkadot
                /\ out.res = "Ok" => caller = polkadot.owner /\ out.st.owner = polkadot.owner
         /\ \A p \in BOOLEAN :
              \A out \in Polkadot_set_paused(polkadot, caller, p) :
                /\ caller # polkadot.owner => out.res = "Unauthorized" /\ out.st = polkadot
                /\ out.res = "Ok" => caller = polkadot.owner /\ out.st.owner = polkadot.owner
         /\ \A new_owner \in Accounts :
              \A out \in Polkadot_transfer_ownership(polkadot, caller, new_owner) :
                /\ caller # polkadot.owner => out.res = "Unauthorized" /\ out.st = polkadot
                /\ out.res = "Ok" => caller = polkadot.owner /\ out.st.owner = new_owner
         /\ \A a \in Amounts :
              /\ \A out \in Polkadot_burn_and_bridge(polkadot, caller, a, 1) :
                   PolkadotAdminState(out.st) = PolkadotAdminState(polkadot)
              /\ \A to \in Accounts :
                   \A out \in Polkadot_transfer(polkadot, caller, to, a) :
                     PolkadotAdminState(out.st) = PolkadotAdminState(polkadot)
              /\ \A proof \in Proofs, c \in MintCommitments, n \in Hashes :
                   \A out \in Polkadot_verify_and_mint(polkadot, PolkadotNow, proof, c, n,
                                                       caller, a, 0) :
                     PolkadotAdminState(out.st) = PolkadotAdminState(polkadot)
    /\ MapHas(stellar.instance, "Admin") =>
         LET current_admin == stellar.instance["Admin"] IN
         \A invoker \in Accounts, admin \in Accounts, m \in OptionOf(MinAmounts),
            f \in OptionOf({0}) :
           \A out \in Stellar_update_config(stellar, token, invoker, admin, m, f) :
             /\ out.st.instance["Admin"] = current_admin
             /\ out.res = "Ok" => invoker = current_admin /\ admin = current_admin
             /\ invoker # current_admin =>
                  /\ out.st = stellar /\ out.token = token
                  /\ out.res = IF admin # current_admin THEN "Unauthorized" ELSE "Auth"

\* Ownership was handed from alice to bob: the previous owner's set_paused is
\* answered Unauthorized, the new owner's is accepted.
C12_Witness ==
    /\ last.op = "Polkadot.transfer_ownership"
    /\ last.args.caller = "alice"
    /\ polkadot.owner = "bob"
    /\ \E out \in Polkadot_set_paused(polkadot, "alice", TRUE) : out.res = "Unauthorized"
    /\ \E out \in Polkadot_set_paused(polkadot, "bob", TRUE) : out.res = "Ok"

\* C13: All-or-nothing calls on the Mint Ledger.  A verify_and_mint,
\* burn_and_bridge or transfer call that changes stored state returns Ok: a call
\* that returns an error leaves nullifiers, balances, totals and commitments as
\* they were.
C13_AllOrNothing ==
    [][(/\ polkadot' # polkadot
        /\ last'.op \in {"Polkadot.verify_and_mint", "Polkadot.burn_and_bridge",
                         "Polkadot.transfer"})
         => last'.res = "Ok"]_vars

\* C14: One-time initialization of the Lock Ledger.  Once initialize has
\* succeeded, every later initialize call, with any admin, token, minimum amount
\* and fee and whoever authorizes it, fails with AlreadyInitialized and leaves the
\* configuration, total_locked, every commitment and every token balance
\* unchanged.
C14_InitializeOnce ==
    MapHas(stellar.instance, "Admin") =>
      \A invoker \in Accounts, admin \in Accounts, token_contract \in {"token", "other"},
         min_lock_amount \in {0, 1000}, relayer_fee \in {0, 5} :
        \A out \in Stellar_initialize(stellar, token, invoker, admin, token_contract,
                                      min_lock_amount, relayer_fee) :
          /\ out.res = "Contract already initialized"
          /\ out.st = stellar /\ out.token = token

\* An initialized Lock Ledger holding a lock: initializing it again for another
\* admin is refused.
C14_Witness ==
    /\ MapHas(stellar.instance, "Admin")
    /\ Stellar_get_total_locked(stellar) > 0
    /\ \E out \in Stellar_initialize(stellar, token, "bob", "bob", "other", 0, 5) :
         out.res = "Contract already initialized"

\* What the accessors that cannot fail answer: the Mint Ledger's balance_of,
\* is_nullifier_used, get_commitment, get_total_minted, get_total_burned and
\* get_owner, the Lock Ledger's is_nullifier_used and get_total_locked.  Each is a
\* function of the storage alone; for a key that was never written the answer is
\* zero, false or absent, and a freshly constructed Mint Ledger answers zero.
AccessorDefaults ==
    /\ \A a \in Accounts :
         Polkadot_balance_of(polkadot, a)
           = IF MapHas(polkadot.balances, a) THEN polkadot.balances[a] ELSE 0
    /\ \A n \in Hashes :
         /\ ~MapHas(polkadot.nullifiers, n) => ~Polkadot_is_nullifier_used(polkadot, n)
         /\ ~MapHas(stellar.nullifiers, n) => ~Stellar_is_nullifier_used(stellar, n)
    /\ \A c \in Hashes :
         Polkadot_get_commitment(polkadot, c)
           = IF MapHas(polkadot.commitments, c) THEN Some(polkadot.commitments[c]) ELSE None
    /\ Polkadot_get_total_minted(polkadot) = polkadot.total_minted
    /\ Polkadot_get_total_burned(polkadot) = polkadot.total_burned
    /\ Polkadot_get_owner(polkadot) = polkadot.owner
    /\ Stellar_get_total_locked(stellar)
         = IF MapHas(stellar.instance, "TotalLocked") THEN stellar.instance["TotalLocked"] ELSE 0
    /\ PolkadotIdle =>
         /\ Polkadot_get_total_minted(polkadot) = 0
         /\ Polkadot_get_total_burned(polkadot) = 0
         /\ \A a \in Accounts : Polkadot_balance_of(polkadot, a) = 0

C16_FeeRateBound ==
    /\ polkadot.relayer_fee_bps \in 0..10000
    /\ \A a \in Amounts :
         ~MulOverflows(a, polkadot.relayer_fee_bps) =>
           \A f \in Polkadot_calculate_fee(polkadot, a) : f.fee <= a

\* C17: Checked arithmetic.  A verify_and_mint call that reaches the fee
\* computation with a product amount * relayer_fee_bps outside the value type
\* fails with ArithmeticOverflow, and no verify_and_mint call aborts with a
\* panic; a lock_funds or refund call whose total_locked + amount or
\* total_locked - amount leaves the value type neither succeeds with a wrapped
\* total nor aborts with an overflow panic.
C17_CheckedArithmetic ==
    /\ \A proof \in Proofs, c \in MintCommitments, n \in Hashes, r \in Accounts, a \in Amounts :
         \A out \in Polkadot_verify_and_mint(polkadot, PolkadotNow, proof, c, n, r, a, 0) :
           /\ out.res # "Panic"
           /\ MulOverflows(a, polkadot.relayer_fee_bps) => out.res # "Ok"
    /\ \A sender \in Accounts, a \in Amounts, c \in Hashes :
         \A out \in Stellar_lock_funds(stellar, token, ledger_time, sender, sender, a, c, 1) :
           /\ out.res # "attempt to add with overflow"
           /\ out.res = "Ok" =>
                Stellar_get_total_locked(out.st) = Stellar_get_total_locked(stellar) + a
    /\ \A invoker \in Accounts, c \in Hashes :
         \A out \in Stellar_refund(stellar, token, ledger_time, invoker, c) :
           /\ out.res # "attempt to subtract with overflow"
           /\ out.res = "Ok" =>
                Stellar_get_total_locked(out.st)
                  = Stellar_get_total_locked(stellar) - stellar.commitments[c].amount

\* C18: Exactly-once mint per commitment.  A verify_and_mint call succeeds only
\* for a commitment hash under which the Mint Ledger has no record yet, and a
\* stored Minted record is never overwritten or removed.
C18_ExactlyOnceMint ==
    [][/\ (PolkadotCalled("Polkadot.verify_and_mint") /\ last'.res = "Ok")
            => ~MapHas(polkadot.commitments, last'.args.commitment_hash)
       /\ \A c \in Hashes :
            MapHas(polkadot.commitments, c) =>
              /\ MapHas(polkadot'.commitments, c)
              /\ polkadot'.commitments[c] = polkadot.commitments[c]
      ]_vars

\* C19: The pause flag gates every value-moving entry point.  In a step taken
\* while the pause flag is set, no account's balance and no total of the Mint
\* Ledger changes, and on the Lock Ledger no token moves and no commitment is
\* recorded or changes status.
C19_PauseGatesValueMoves ==
    [][polkadot.paused =>
         /\ \A a \in Accounts :
              Polkadot_balance_of(polkadot', a) = Polkadot_balance_of(polkadot, a)
         /\ polkadot'.total_minted = polkadot.total_minted
         /\ polkadot'.total_burned = polkadot.total_burned
         /\ token' = token
         /\ stellar'.commitments = stellar.commitments
      ]_vars

\* C20: verify_and_unlock.  The call fails with NullifierUsed when the
\* nullifier is recorded, else with CommitmentNotFound when the hash is unknown,
\* else with CommitmentAlreadyProcessed when the status is not Locked, else
\* with InvalidProof when the Proof Gate rejects, and a failing call changes
\* nothing.  Otherwise it succeeds: it records exactly that nullifier and sets
\* exactly that commitment's status to Claimed; the commitment's other fields,
\* every other commitment, the configuration with total_locked and every token
\* balance stay as they were.
C20_VerifyAndUnlockFrame ==
    \A proof \in Proofs, c \in Hashes, n \in Hashes, rh \in RecipientHashes :
      \A out \in Stellar_verify_and_unlock(stellar, token, proof, c, n, rh) :
        /\ out.res =
             IF Stellar_is_nullifier_used(stellar, n)
             THEN "Nullifier already used - double spend attempt"
             ELSE IF ~MapHas(stellar.commitments, c)
             THEN "Commitment not found"
             ELSE IF stellar.commitments[c].status # "Locked"
             THEN "Commitment already processed"
             ELSE IF GateRejects(proof, c, n, rh)
             THEN "Invalid ZK proof"
             ELSE "Ok"
        /\ out.token = token
        /\ out.st.instance = stellar.instance
        /\ IF out.res = "Ok"
           THEN /\ DOMAIN out.st.nullifiers = DOMAIN stellar.nullifiers \cup {n}
                /\ \A m \in DOMAIN out.st.nullifiers :
                     out.st.nullifiers[m] = IF m = n THEN TRUE ELSE stellar.nullifiers[m]
                /\ out.st.commitments = [stellar.commitments EXCEPT ![c].status = "Claimed"]
           ELSE out.st = stellar

\* A verify_and_unlock that succeeded: the commitment is Claimed with its amount
\* still in custody and counted in total_locked.
C20_Witness ==
    /\ last.op = "Stellar.verify_and_unlock"
    /\ last.res = "Ok"
    /\ stellar.commitments[last.args.commitment_hash].status = "Claimed"
    /\ Stellar_is_nullifier_used(stellar, last.args.nullifier_hash)
    /\ token[ContractAddress] = stellar.commitments[last.args.commitment_hash].amount
    /\ Stellar_get_total_locked(stellar) = token[ContractAddress]
    /\ token[ContractAddress] > 0

\* What a burn_and_bridge call leaves alone: every other account's balance,
\* total_minted, the nullifiers, the commitments and the configuration.
BurnFrame(out, caller) ==
    /\ \A b \in Accounts \ {caller} :
         Polkadot_balance_of(out.st, b) = Polkadot_balance_of(polkadot, b)
    /\ out.st.total_minted = polkadot.total_minted
    /\ out.st.nullifiers = polkadot.nullifiers
    /\ out.st.commitments = polkadot.commitments
    /\ PolkadotAdminState(out.st) = PolkadotAdminState(polkadot)

\* C21: on an unpaused Mint Ledger burn_and_bridge fails with
\* InsufficientBalance and changes nothing when the caller's balance is below
\* the amount; otherwise it succeeds, lowers the caller's balance by the amount
\* and raises total_burned by the amount, and changes nothing else.
C21_BurnSucceedsWhenFunded ==
    ~polkadot.paused =>
      \A caller \in Accounts, a \in Amounts :
        \A out \in Polkadot_burn_and_bridge(polkadot, caller, a, 1) :
          IF Polkadot_balance_of(polkadot, caller) < a
          THEN out.res = "InsufficientBalance" /\ out.st = polkadot
          ELSE /\ out.res = "Ok"
               /\ Polkadot_balance_of(out.st, caller) = Polkadot_balance_of(polkadot, caller) - a
               /\ Polkadot_get_total_burned(out.st) = Polkadot_get_total_burned(polkadot) + a
               /\ BurnFrame(out, caller)

\* The value an optional override leaves in a field: the supplied value, or the
\* field's current value when the override is absent.
Overridden(option, current) == IF option # None THEN option[1] ELSE current

\* C22: update_config called by the owner (the admin on the Lock Ledger)
\* succeeds and changes only the supplied fields: an absent minimum override
\* leaves the minimum as it was and an absent fee override leaves the fee as it
\* was, and owner, pause flag, balances, totals, nullifiers, commitments and the
\* token ledger stay as they were; a verify_and_mint or lock_funds called
\* afterwards compares its amount with the minimum now stored, and
\* verify_and_mint deducts the fee at the rate now stored.
C22_UpdateConfigFrame ==
    /\ \A m \in OptionOf(MinAmounts \cup {10000}), f \in OptionOf(FeeRates) :
         \A out \in Polkadot_update_config(polkadot, polkadot.owner, m, f) :
           LET min == Overridden(m, polkadot.min_mint_amount)
               fee == Overridden(f, polkadot.relayer_fee_bps)
           IN
           /\ out.res = "Ok"
           /\ out.st = [polkadot EXCEPT !.min_mint_amount = min, !.relayer_fee_bps = fee]
           /\ ~polkadot.paused =>
                \A a \in Amounts, r \in Accounts :
                  \A later \in Polkadot_verify_and_mint(out.st, PolkadotNow, MinProofLen, 2, 2, r, a, 0) :
                    /\ (later.res = "AmountTooLow") = (a < min)
                    /\ later.res = "Ok" /\ ~MulOverflows(a, fee) =>
                         Polkadot_balance_of(later.st, r)
                           = Polkadot_balance_of(polkadot, r) + (a - (a * fee) \div BpsDenominator)
    /\ MapHas(stellar.instance, "Admin") =>
         \A m \in OptionOf(MinAmounts \cup {10000}), f \in OptionOf({0, 5}) :
           LET admin == stellar.instance["Admin"] IN
           \A out \in Stellar_update_config(stellar, token, admin, admin, m, f) :
             LET min == Overridden(m, Stellar_min_lock_amount(stellar)) IN
             /\ out.res = "Ok"
             /\ out.token = token
             /\ out.st.commitments = stellar.commitments
             /\ out.st.nullifiers = stellar.nullifiers
             /\ \A k \in {"Admin", "TokenContract", "TotalLocked"} :
                  /\ MapHas(out.st.instance, k) = MapHas(stellar.instance, k)
                  /\ MapHas(stellar.instance, k) => out.st.instance[k] = stellar.instance[k]
             /\ Stellar_min_lock_amount(out.st) = min
             /\ MapGet(out.st.instance, "RelayerFee", None)
                  = Overridden(f, MapGet(stellar.instance, "RelayerFee", None))
             /\ \A a \in Amounts, sender \in Accounts :
                  \A later \in Stellar_lock_funds(out.st, out.token, ledger_time, sender, sender, a, 2, 0) :
                    a < min => later.res = "Amount below minimum" /\ later.st = out.st

\* C22 witness: the owner has lowered the minimum to 0 and left the fee
\* override absent; the fee rate is still the constructor's 30 and a mint of
\* 50, below the constructor's minimum of 1000, has then gone through.
C22_Witness ==
    /\ last.op = "Polkadot.verify_and_mint"
    /\ last.res = "Ok"
    /\ last.args.amount = 50
    /\ polkadot.min_mint_amount = 0
    /\ polkadot.relayer_fee_bps = 30

\* The amounts of the commitments the Lock Ledger still holds in escrow: those
\* whose status is Locked or Claimed.
EscrowedAmounts(self) ==
    [c \in DOMAIN self.commitments |->
       IF self.commitments[c].status # "Refunded" THEN self.commitments[c].amount ELSE 0]
EscrowBalanced ==
    /\ Stellar_get_total_locked(stellar) = SumOver(EscrowedAmounts(stellar), DOMAIN stellar.commitments)
    /\ Stellar_get_total_locked(stellar) = token[ContractAddress]
LockLedgerStep ==
    /\ StellarCalled("Stellar.verify_and_unlock") =>
         /\ Stellar_get_total_locked(stellar') = Stellar_get_total_locked(stellar)
         /\ token' = token
    /\ (\/ Stellar_get_total_locked(stellar') < Stellar_get_total_locked(stellar)
        \/ token'[ContractAddress] < token[ContractAddress]) =>
         /\ last'.op = "Stellar.refund"
         /\ last'.res = "Ok"

\* C23: Lock Ledger escrow accounting.  In every state get_total_locked equals
\* the sum of the amounts of the commitments that are not Refunded (Locked and
\* Claimed alike) and equals the token balance the contract holds;
\* verify_and_unlock changes neither the total nor any token balance, and a
\* step that lowers the total or the contract's token balance is a successful
\* refund.
C23_EscrowAccounting == [](EscrowBalanced) /\ [][LockLedgerStep]_vars

\* C23 witness: a commitment has just been claimed while another is still
\* locked, both of positive amount, so the total counts a Claimed commitment.
C23_Witness ==
    /\ last.op = "Stellar.verify_and_unlock"
    /\ last.res = "Ok"
    /\ \E c, d \in DOMAIN stellar.commitments :
         /\ stellar.commitments[c].status = "Claimed"
         /\ stellar.commitments[d].status = "Locked"
         /\ stellar.commitments[c].amount > 0
         /\ stellar.commitments[d].amount > 0
         /\ Stellar_get_total_locked(stellar)
              = stellar.commitments[c].amount + stellar.commitments[d].amount

\* C24: cross-chain no double-spend.  With the two ledgers taking their calls
\* in any interleaving, no commitment hash is Refunded on the Lock Ledger while
\* the Mint Ledger holds a Minted record for the same hash.
C24_NoRefundedAndMinted ==
    \A c \in Hashes :
      ~(/\ MapHas(stellar.commitments, c)
        /\ stellar.commitments[c].status = "Refunded"
        /\ MapHas(polkadot.commitments, c)
        /\ polkadot.commitments[c].status = "Minted")

\* The amounts of the locks SimpleEscrow stores, those get_lock_info returns.
StoredLockAmounts(self) == [id \in DOMAIN self.locks |-> self.locks[id].amount]

\* C25: SimpleEscrow accounting.  After one initialize and any sequence of
\* lock_funds and unlock_funds calls, with lock ids that may repeat,
\* get_total_locked equals the sum of the amounts of the locks currently
\* stored, and so does the token balance the contract holds: all of it can be
\* released by unlock_funds calls.
C25_SimpleEscrowAccounting ==
    /\ SimpleEscrow_get_total_locked(escrow)
         = SumOver(StoredLockAmounts(escrow), DOMAIN escrow.locks)
    /\ escrow_token[EscrowAddress]
         = SumOver(StoredLockAmounts(escrow), DOMAIN escrow.locks)

\* C26: the minimal counter contracts.  After initialize (after construction,
\* for MinimalPolkadot) get_count returns 0; every increment call that returns
\* a value returns the previous count plus one, get_count then returns that
\* value, and the stored owner is as it was before the call.
C26_CounterIncrements ==
    /\ \A invoker \in Accounts, owner \in Accounts :
         \A out \in MinimalTest_initialize(minimal_test, invoker, owner) :
           out.res = "Ok" => MinimalTest_get_count(out.st) = 0
    /\ \A out \in MinimalTest_increment(minimal_test) :
         out.res = "Ok" =>
           /\ out.value = Some(MinimalTest_get_count(minimal_test) + 1)
           /\ MinimalTest_get_count(out.st) = MinimalTest_get_count(minimal_test) + 1
           /\ MinimalTest_get_owner(out.st) = MinimalTest_get_owner(minimal_test)
    /\ \A caller \in Accounts : MinimalPolkadot_get_count(MinimalPolkadot_new(caller)) = 0
    /\ \A out \in MinimalPolkadot_increment(minimal_polkadot) :
         /\ out.res = "Ok"
         /\ out.value = Some(MinimalPolkadot_get_count(minimal_polkadot) + 1)
         /\ MinimalPolkadot_get_count(out.st) = MinimalPolkadot_get_count(minimal_polkadot) + 1
         /\ MinimalPolkadot_get_owner(out.st) = MinimalPolkadot_get_owner(minimal_polkadot)

====
